---- MODULE Spec2Model ----
(***************************************************************************)
(* Model of the tokenomics simulation engine, run_simulation of            *)
(* src/tokenomics_simulator.py: the extraction of the parameters, the      *)
(* initialisation of the run's state, the monthly loop and the return.     *)
(*                                                                         *)
(* Python evaluates the engine's arithmetic on int and float operands.     *)
(* Every int of the model is below 2^53, so an int is a float that is      *)
(* exact, and every arithmetic result is the exact result rounded to the   *)
(* nearest binary64 value, ties to even.  The model computes exactly that: *)
(* a number is a sign, an odd significand and a binary exponent, and the   *)
(* significand is an arbitrary-precision natural, because TLC's own        *)
(* integers are 32 bits wide.  The two zeros of binary64 compare equal and *)
(* are one number here.  Overflow of a float to infinity and gradual       *)
(* underflow are outside the model: the magnitudes of a run stay far from  *)
(* both.  A Python int has no bound, a float has: an int of 2^1024 or more *)
(* is Huge, and taking it as an operand of float arithmetic raises         *)
(* OverflowError.                                                          *)
(***************************************************************************)
EXTENDS Integers, Sequences, FiniteSets, TLC

(***************************************************************************)
(* Arbitrary-precision naturals: little-endian sequences of limbs below    *)
(* Base, without leading zero limbs; << >> is zero.                        *)
(***************************************************************************)
LimbBits == 15

Base == 2^LimbBits

Min(a, b) == IF a <= b THEN a ELSE b

Abs(n) == IF n < 0 THEN -n ELSE n

RECURSIVE BTrim(_)
BTrim(a) ==
    IF a = <<>> THEN <<>>
    ELSE IF a[Len(a)] = 0 THEN BTrim(SubSeq(a, 1, Len(a) - 1))
    ELSE a

RECURSIVE BFromNat(_)
BFromNat(n) == IF n = 0 THEN <<>> ELSE <<n % Base>> \o BFromNat(n \div Base)

Limb(a, i) == IF i <= Len(a) THEN a[i] ELSE 0

RECURSIVE BAddFrom(_, _, _, _)
BAddFrom(a, b, i, carry) ==
    IF i > Len(a) /\ i > Len(b)
    THEN IF carry = 0 THEN <<>> ELSE <<carry>>
    ELSE LET s == Limb(a, i) + Limb(b, i) + carry
         IN  <<s % Base>> \o BAddFrom(a, b, i + 1, s \div Base)

BAdd(a, b) == BAddFrom(a, b, 1, 0)

\* a - b for a >= b
RECURSIVE BSubFrom(_, _, _, _)
BSubFrom(a, b, i, borrow) ==
    IF i > Len(a) THEN <<>>
    ELSE LET d == Limb(a, i) - Limb(b, i) - borrow
         IN  IF d < 0 THEN <<d + Base>> \o BSubFrom(a, b, i + 1, 1)
             ELSE <<d>> \o BSubFrom(a, b, i + 1, 0)

BSub(a, b) == BTrim(BSubFrom(a, b, 1, 0))

\* -1, 0, 1 as a < b, a = b, a > b
RECURSIVE BCmpFrom(_, _, _)
BCmpFrom(a, b, i) ==
    IF i = 0 THEN 0
    ELSE IF a[i] < b[i] THEN -1
    ELSE IF a[i] > b[i] THEN 1
    ELSE BCmpFrom(a, b, i - 1)

BCmp(a, b) ==
    IF Len(a) < Len(b) THEN -1
    ELSE IF Len(a) > Len(b) THEN 1
    ELSE BCmpFrom(a, b, Len(a))

\* a * k + carry for 0 <= k < Base
RECURSIVE BMulSmallFrom(_, _, _, _)
BMulSmallFrom(a, k, i, carry) ==
    IF i > Len(a)
    THEN IF carry = 0 THEN <<>> ELSE <<carry>>
    ELSE LET p == a[i] * k + carry
         IN  <<p % Base>> \o BMulSmallFrom(a, k, i + 1, p \div Base)

BMulSmall(a, k) == BTrim(BMulSmallFrom(a, k, 1, 0))

Zeros(n) == [i \in 1..n |-> 0]

BShiftLimbs(a, n) == IF a = <<>> THEN <<>> ELSE Zeros(n) \o a

RECURSIVE BMulFrom(_, _, _)
BMulFrom(a, b, j) ==
    IF j > Len(b) THEN <<>>
    ELSE BAdd(BShiftLimbs(BMulSmall(a, b[j]), j - 1), BMulFrom(a, b, j + 1))

BMul(a, b) == BMulFrom(a, b, 1)

\* <<quotient, remainder>> of a by k, 0 < k < Base; limbs taken from the top
RECURSIVE BDivSmallFrom(_, _, _, _)
BDivSmallFrom(a, k, i, rem) ==
    IF i = 0 THEN <<<<>>, rem>>
    ELSE LET cur  == rem * Base + a[i]
             rest == BDivSmallFrom(a, k, i - 1, cur % k)
         IN  <<Append(rest[1], cur \div k), rest[2]>>

BDivSmall(a, k) ==
    LET r == BDivSmallFrom(a, k, Len(a), 0)
    IN  <<BTrim(r[1]), r[2]>>

\* a * 2^n
BShl(a, n) == BShiftLimbs(BMulSmall(a, 2^(n % LimbBits)), n \div LimbBits)

\* floor(a / 2^n)
BShr(a, n) ==
    LET drop == n \div LimbBits
    IN  IF drop >= Len(a) THEN <<>>
        ELSE BDivSmall(SubSeq(a, drop + 1, Len(a)), 2^(n % LimbBits))[1]

RECURSIVE SmallBitLen(_)
SmallBitLen(n) == IF n = 0 THEN 0 ELSE 1 + SmallBitLen(n \div 2)

BitLen(a) ==
    IF a = <<>> THEN 0 ELSE LimbBits * (Len(a) - 1) + SmallBitLen(a[Len(a)])

BIsOdd(a) == a # <<>> /\ a[1] % 2 = 1

\* the number of trailing zero bits of a # 0
RECURSIVE SmallTrailingZeros(_)
SmallTrailingZeros(n) == IF n % 2 = 1 THEN 0 ELSE 1 + SmallTrailingZeros(n \div 2)

RECURSIVE BTrailingZeros(_)
BTrailingZeros(a) ==
    IF a[1] = 0 THEN LimbBits + BTrailingZeros(Tail(a))
    ELSE SmallTrailingZeros(a[1])

(***************************************************************************)
(* Python's float: IEEE 754 binary64, a significand of Prec bits, rounded  *)
(* to nearest, ties to even.  A number is [sg, m, e] of value              *)
(* sg * m * 2^e with m odd, or Zero; the form is unique, so two numbers    *)
(* are equal exactly when their records are.                               *)
(***************************************************************************)
Prec == 53

Zero == [sg |-> 0, m |-> <<>>, e |-> 0]

\* sg * n * 2^e for an exact natural n, without rounding
Exact(sg, n, e) ==
    IF n = <<>> \/ sg = 0 THEN Zero
    ELSE LET tz == BTrailingZeros(n)
         IN  [sg |-> sg, m |-> BShr(n, tz), e |-> e + tz]

\* sg * n * 2^e rounded to Prec significant bits, ties to even
Round(sg, n, e) ==
    LET bl == BitLen(n)
    IN  IF bl <= Prec THEN Exact(sg, n, e)
        ELSE LET sh   == bl - Prec
                 q    == BShr(n, sh)
                 rem  == BSub(n, BShl(q, sh))
                 half == BShl(<<1>>, sh - 1)
                 c    == BCmp(rem, half)
                 up   == c > 0 \/ (c = 0 /\ BIsOdd(q))
             IN  Exact(sg, IF up THEN BAdd(q, <<1>>) ELSE q, e + sh)

\* a Python int below 2^31 as a number
FromInt(n) == Exact(IF n < 0 THEN -1 ELSE 1, BFromNat(Abs(n)), 0)

FNeg(x) == [x EXCEPT !.sg = -x.sg]

\* the exact sum of two numbers as <<sign, natural, exponent>>
ExactSum(x, y) ==
    IF x.sg = 0 THEN <<y.sg, y.m, y.e>>
    ELSE IF y.sg = 0 THEN <<x.sg, x.m, x.e>>
    ELSE LET e == Min(x.e, y.e)
             a == BShl(x.m, x.e - e)
             b == BShl(y.m, y.e - e)
             c == BCmp(a, b)
         IN  IF x.sg = y.sg THEN <<x.sg, BAdd(a, b), e>>
             ELSE IF c = 0 THEN <<0, <<>>, 0>>
             ELSE IF c > 0 THEN <<x.sg, BSub(a, b), e>>
             ELSE <<y.sg, BSub(b, a), e>>

\* x + y
FAdd(x, y) == LET s == ExactSum(x, y) IN Round(s[1], s[2], s[3])

\* x - y
FSub(x, y) == FAdd(x, FNeg(y))

\* x * y
FMul(x, y) == Round(x.sg * y.sg, BMul(x.m, y.m), x.e + y.e)

\* x / y for y # 0 whose odd significand is below Base (a count of months, the
\* denominator of a decimal literal): the quotient is taken to Prec + 2 bits
\* or more, and a remainder left over becomes a sticky bit below them
FDiv(x, y) ==
    IF x.sg = 0 THEN Zero
    ELSE LET k  == Prec + 2 + BitLen(y.m)
             qr == BDivSmall(BShl(x.m, k), y.m[1])
             e  == x.e - y.e - k
         IN  IF qr[2] = 0 THEN Round(x.sg * y.sg, qr[1], e)
             ELSE Round(x.sg * y.sg, BAdd(BShl(qr[1], 1), <<1>>), e - 1)

\* the sign of x - y: -1, 0, 1
FCmp(x, y) == ExactSum(x, FNeg(y))[1]

FLt(x, y) == FCmp(x, y) < 0

FLe(x, y) == FCmp(x, y) <= 0

FGt(x, y) == FCmp(x, y) > 0

\* Python's min(a, b): b when b < a, else a
FMin(a, b) == IF FLt(b, a) THEN b ELSE a

\* a decimal literal num/den of the source or of a request, as the float it
\* reads as: the nearest binary64 value
Dec(num, den) == FDiv(FromInt(num), FromInt(den))

(***************************************************************************)
(* The parameters of a call: a Python dict, here a function from the keys  *)
(* it holds to their values.  Counts of months and of tokens are ints; the *)
(* percentages are floats.                                                 *)
(***************************************************************************)
Keys ==
    { "total_supply", "initial_circulating_supply", "simulation_duration_months",
      "team_allocation_pct", "private_sale_pct", "public_sale_pct", "treasury_pct",
      "community_rewards_pct", "liquidity_mining_pct",
      "team_cliff_months", "team_vesting_linear_months",
      "private_sale_cliff_months", "private_sale_vesting_linear_months",
      "monthly_emission_tokens", "transaction_fee_burn_pct",
      "monthly_simulated_transactions" }

\* the sample parameters of the module's example run
sample_params ==
    [ total_supply |-> 1000000000,
      initial_circulating_supply |-> 150000000,
      simulation_duration_months |-> 60,
      team_allocation_pct |-> Dec(20, 100),
      private_sale_pct |-> Dec(15, 100),
      public_sale_pct |-> Dec(10, 100),
      treasury_pct |-> Dec(30, 100),
      community_rewards_pct |-> Dec(15, 100),
      liquidity_mining_pct |-> Dec(10, 100),
      team_cliff_months |-> 12,
      team_vesting_linear_months |-> 36,
      private_sale_cliff_months |-> 6,
      private_sale_vesting_linear_months |-> 24,
      monthly_emission_tokens |-> 5000000,
      transaction_fee_burn_pct |-> Dec(1, 1000),
      monthly_simulated_transactions |-> 500000000 ]

\* dict d with the entries of dict u put over it
Update(d, u) ==
    [k \in DOMAIN d \cup DOMAIN u |-> IF k \in DOMAIN u THEN u[k] ELSE d[k]]

\* dict d without key k
Without(d, k) == [x \in DOMAIN d \ {k} |-> d[x]]

(***************************************************************************)
(* The bounds of the model and the calls it makes.                         *)
(***************************************************************************)
MaxDuration == 6

MaxCliff == 2

MaxLinear == 3

Durations == (0 - 1)..MaxDuration

Pcts == {Dec(0, 1), Dec(1, 5), Dec(1, 1)}

\* the vesting schedules of one bucket: <<allocation pct, cliff, linear months>>
Schedules == Pcts \X (0..MaxCliff) \X (0..MaxLinear)

\* the schedules the other bucket takes while one bucket ranges over Schedules
FewSchedules == {<<Dec(0, 1), 0, 0>>, <<Dec(3, 20), 1, 2>>}

\* supply, emission and burn: <<total supply, initial circulating supply,
\* monthly emission, burn pct, monthly transactions>>
Economies ==
    { <<10, 3, 5, Dec(3, 10), 3>>,
      <<1000, 150, 5, Dec(1, 1000), 500>> }

Config(eco, duration, team, private) ==
    Update(sample_params,
        [ total_supply |-> eco[1],
          initial_circulating_supply |-> eco[2],
          monthly_emission_tokens |-> eco[3],
          transaction_fee_burn_pct |-> eco[4],
          monthly_simulated_transactions |-> eco[5],
          simulation_duration_months |-> duration,
          team_allocation_pct |-> team[1],
          team_cliff_months |-> team[2],
          team_vesting_linear_months |-> team[3],
          private_sale_pct |-> private[1],
          private_sale_cliff_months |-> private[2],
          private_sale_vesting_linear_months |-> private[3] ])

GridConfigs ==
    { Config(eco, d, s, f) : eco \in Economies, d \in Durations,
                             s \in Schedules, f \in FewSchedules }
    \cup
    { Config(eco, d, f, s) : eco \in Economies, d \in Durations,
                             s \in Schedules, f \in FewSchedules }

\* the scenario of the specification's testable properties; the private-sale
\* bucket holds nothing, whatever its schedule
ScenarioConfigs ==
    { Update(sample_params,
        [ simulation_duration_months |-> 2,
          team_cliff_months |-> 1,
          team_vesting_linear_months |-> 1,
          private_sale_pct |-> Dec(0, 1),
          private_sale_cliff_months |-> c,
          private_sale_vesting_linear_months |-> l ]) :
      c \in 0..MaxCliff, l \in 0..MaxLinear }

\* values outside the documented domains: a negative percentage, a negative
\* supply, negative months, more in circulation than in supply
OutOfDomainConfigs ==
    { Update(Config(eco, d, <<Dec(1, 5), 1, 2>>, <<Dec(3, 20), 0, 1>>), u) :
      eco \in Economies, d \in Durations,
      u \in { [team_allocation_pct |-> Dec(0 - 1, 5)],
              [private_sale_pct |-> Dec(0 - 1, 5)],
              [total_supply |-> 0 - 10],
              [team_vesting_linear_months |-> 0 - 1],
              [private_sale_cliff_months |-> 0 - 1],
              [initial_circulating_supply |-> 2000],
              [team_allocation_pct |-> Dec(1, 1), private_sale_pct |-> Dec(1, 1)],
              [monthly_emission_tokens |-> 0 - 5] } }

\* a dict that lacks one key
MissingKeyConfigs ==
    { Without(Config(eco, d, <<Dec(1, 5), 1, 2>>, <<Dec(3, 20), 0, 1>>), k) :
      eco \in Economies, d \in {0, 1, MaxDuration}, k \in Keys }

Configs ==
    {sample_params} \cup ScenarioConfigs \cup GridConfigs
    \cup OutOfDomainConfigs \cup MissingKeyConfigs

(***************************************************************************)
(* The state of one call of run_simulation.                                *)
(***************************************************************************)
VARIABLES
    pc,                                  \* "idle", "init", "loop", "returned", "raised"
    line,                                \* the line of the statement that raised, or 0
    parameters,                          \* the argument
    data,                                \* the list of the months' records
    initial_team_locked,
    initial_private_sale_locked,
    current_circulating_supply,
    current_total_supply,
    current_team_locked,
    current_private_sale_locked,
    team_monthly_unlock_amount,
    private_sale_monthly_unlock_amount,
    range_next,                          \* the next value of the loop's range iterator
    range_stop,                          \* the end of the loop's range
    month,                               \* the loop variable; 0 while unbound
    result                               \* the rows of the DataFrame returned

(***************************************************************************)
(* Several calls in flight.  The variables above are the frame of the call *)
(* that is running; the frames of the calls that are switched out wait in  *)
(* frames.                                                                 *)
(***************************************************************************)
VARIABLES
    cur,                                 \* the call that is running
    frames                               \* the frames of the calls switched out

\* the local variables of one call of run_simulation
locals ==
    << pc, line, parameters, data, initial_team_locked, initial_private_sale_locked,
       current_circulating_supply, current_total_supply, current_team_locked,
       current_private_sale_locked, team_monthly_unlock_amount,
       private_sale_monthly_unlock_amount, range_next, range_stop, month, result >>

(***************************************************************************)
(* The API of src/main.py around the engine, and what it depends on.       *)
(***************************************************************************)
VARIABLES
    api_pc,                              \* "off", "idle", or "simulate": the handler
                                         \* of /simulate is inside run_simulation
    http_response,                       \* the last response of the API
    environ,                             \* os.environ, the environment of the process
    service,                             \* how the client of the LLM service behaves
    sent                                 \* the requests made to the LLM service

\* the other calls in flight
sched == << cur, frames >>

\* the API around the engine
api == << api_pc, http_response, environ, service, sent >>

\* what a step of one call leaves alone
others == << sched, api >>

vars == << locals, others >>

\* what parameters.get(key) gives for a key the dict lacks
None == [none |-> TRUE]

\* the default of parameters.get('monthly_simulated_transactions', ...)
DefaultTransactions == 1000000

\* the first month of the loop's range
RangeFirst == 1

\* a Python int of 2^1024 or more, which no float holds: the largest int of TLC
\* stands for all of them, and no other number of a config comes near it
Huge == 2147483647

\* v is Huge; TLC compares values of one kind only, an int with an int, so the
\* test is made on how the value is written
IsHuge(v) == ToString(v) = ToString(Huge)

\* the value of a variable that holds an int that is Huge, where the variable
\* of an int n holds FromInt(n)
FromHuge == [huge |-> TRUE]

\* parameters.get(key) finds the key
Has(key) == key \in DOMAIN parameters

\* float(parameters.get(key)) raises OverflowError
Overflows(key) == Has(key) /\ IsHuge(parameters[key])

\* parameters.get(key, default)
Get(key, default) == IF Has(key) THEN parameters[key] ELSE default

\* the sixteen values run_simulation extracts from its argument
total_supply == parameters["total_supply"]
initial_circulating_supply == parameters["initial_circulating_supply"]
simulation_duration_months == parameters["simulation_duration_months"]
team_allocation_pct == parameters["team_allocation_pct"]
private_sale_pct == parameters["private_sale_pct"]
team_cliff_months == parameters["team_cliff_months"]
team_vesting_linear_months == parameters["team_vesting_linear_months"]
private_sale_cliff_months == parameters["private_sale_cliff_months"]
private_sale_vesting_linear_months == parameters["private_sale_vesting_linear_months"]
monthly_emission_tokens == parameters["monthly_emission_tokens"]
transaction_fee_burn_pct == parameters["transaction_fee_burn_pct"]
monthly_simulated_transactions ==
    Get("monthly_simulated_transactions", DefaultTransactions)

\* no response has been given yet
NoResponse == [endpoint |-> "none"]

\* the client of the LLM service is built and its call answers with a text
ServiceUp ==
    [ client |-> "ok", create |-> "ok",
      content |-> "Inflationary pressure is moderate." ]

\* the calls that can be in flight together
MaxRuns == 2

Runs == 1..MaxRuns

\* the frame of a call that has not started
NewFrame ==
    [ pc |-> "idle", line |-> 0, parameters |-> << >>, data |-> << >>,
      initial_team_locked |-> Zero, initial_private_sale_locked |-> Zero,
      current_circulating_supply |-> Zero, current_total_supply |-> Zero,
      current_team_locked |-> Zero, current_private_sale_locked |-> Zero,
      team_monthly_unlock_amount |-> Zero, private_sale_monthly_unlock_amount |-> Zero,
      range_next |-> 0, range_stop |-> 0, month |-> 0, result |-> << >> ]

Init ==
    /\ pc = "idle"
    /\ line = 0
    /\ parameters = << >>
    /\ data = << >>
    /\ initial_team_locked = Zero
    /\ initial_private_sale_locked = Zero
    /\ current_circulating_supply = Zero
    /\ current_total_supply = Zero
    /\ current_team_locked = Zero
    /\ current_private_sale_locked = Zero
    /\ team_monthly_unlock_amount = Zero
    /\ private_sale_monthly_unlock_amount = Zero
    /\ range_next = 0
    /\ range_stop = 0
    /\ month = 0
    /\ result = << >>
    /\ cur = 1
    /\ frames = [r \in Runs |-> NewFrame]
    /\ api_pc = "off"
    /\ http_response = NoResponse
    /\ environ = << >>
    /\ service = ServiceUp
    /\ sent = << >>

\* run_simulation(p) is called: the sixteen parameters.get() never raise
Call(p) ==
    /\ pc = "idle"
    /\ pc' = "init"
    /\ parameters' = p
    /\ UNCHANGED << line, data, initial_team_locked, initial_private_sale_locked,
                    current_circulating_supply, current_total_supply,
                    current_team_locked, current_private_sale_locked,
                    team_monthly_unlock_amount, private_sale_monthly_unlock_amount,
                    range_next, range_stop, month, result >>

\* a statement at line n has run when nothing raised (raise 0) or a later line did
Ran(n, raise) == raise = 0 \/ raise > n

\* the name of the type of parameters.get(key), a value of type type when present
TypeName(key, type) == IF Has(key) THEN type ELSE "NoneType"

\* str(e) of the TypeError of a binary operator
Unsupported(op, left, right) ==
    "unsupported operand type(s) for " \o op \o ": '" \o left \o "' and '" \o right \o "'"

\* str(e) of the TypeError of a comparison
NotSupported(op, left, right) ==
    "'" \o op \o "' not supported between instances of '" \o left \o "' and '"
    \o right \o "'"

\* str(e) of the OverflowError of float(n) for an int n that is Huge
TooLarge == "int too large to convert to float"

\* str(e) of the exception e raised at line n: a TypeError when an operand is
\* None, else the OverflowError of the operand that is Huge
ErrorMessageAt(n) ==
    CASE n = 44 ->
             IF Has("total_supply") /\ Has("team_allocation_pct") THEN TooLarge
             ELSE Unsupported("*", TypeName("total_supply", "int"),
                              TypeName("team_allocation_pct", "float"))
      [] n = 45 -> Unsupported("*", "int", "NoneType")
      [] n \in {57, 61} -> NotSupported(">", "NoneType", "int")
      [] n \in {58, 62} -> TooLarge
      [] n = 65 -> Unsupported("+", "NoneType", "int")
      [] n \in {72, 76} -> NotSupported(">", "int", "NoneType")
      [] n = 83 ->
             IF Has("transaction_fee_burn_pct") THEN TooLarge
             ELSE Unsupported("*", "int", "NoneType")
      [] n = 86 ->
             IF Has("monthly_emission_tokens") THEN TooLarge
             ELSE Unsupported("-", "NoneType", "float")
      [] n = 87 ->
             IF Has("initial_circulating_supply") THEN TooLarge
             ELSE Unsupported("+=", "NoneType", "float")

\* str(e) of the exception the call raised
ErrorMessage == ErrorMessageAt(line)

\* total_supply * pct, the allocation a bucket starts with
InitialLocked(supply, pct) == FMul(FromInt(supply), pct)

\* a slip: the allocation is spread over one month more
MonthlyUnlockAmount_ExtraMonth(initial_locked, linear_months) ==
    IF linear_months > 0 THEN FDiv(initial_locked, FromInt(linear_months + 1)) ELSE Zero

\* a slip: without linear vesting the whole allocation unlocks after the cliff
MonthlyUnlockAmount_InstantUnlock(initial_locked, linear_months) ==
    IF linear_months > 0 THEN FDiv(initial_locked, FromInt(linear_months))
    ELSE initial_locked

\* the amount a bucket unlocks each month after its cliff
MonthlyUnlockAmount(initial_locked, linear_months) ==
    IF linear_months > 0 THEN FDiv(initial_locked, FromInt(linear_months)) ELSE Zero

\* a slip: range(1, simulation_duration_months)
RangeStop_Short(duration) == duration

\* a slip: a negative duration runs as many months as a positive one
RangeStop_Abs(duration) == Abs(duration) + 1

\* range(1, simulation_duration_months + 1) ends before this value
RangeStop(duration) == duration + 1

\* the line of Initialize that raises, or 0: TypeError on a value that is None,
\* OverflowError on an int that is Huge and meets a float
InitializeRaises ==
    IF ~Has("total_supply") \/ ~Has("team_allocation_pct") \/ Overflows("total_supply")
    THEN 44
    ELSE IF ~Has("private_sale_pct") THEN 45
    ELSE IF ~Has("team_vesting_linear_months") THEN 57
    ELSE IF Overflows("team_vesting_linear_months") THEN 58
    ELSE IF ~Has("private_sale_vesting_linear_months") THEN 61
    ELSE IF Overflows("private_sale_vesting_linear_months") THEN 62
    ELSE IF ~Has("simulation_duration_months") THEN 65
    ELSE 0

\* the statements from data = [] to the construction of the loop's range
Initialize ==
    LET raise == InitializeRaises
        itl   == InitialLocked(total_supply, team_allocation_pct)
        ipl   == InitialLocked(total_supply, private_sale_pct)
    IN  /\ pc = "init"
        /\ pc' = IF raise = 0 THEN "loop" ELSE "raised"
        /\ line' = raise
        /\ data' = << >>
        /\ initial_team_locked' = IF Ran(44, raise) THEN itl ELSE initial_team_locked
        /\ initial_private_sale_locked' =
               IF Ran(45, raise) THEN ipl ELSE initial_private_sale_locked
        /\ current_circulating_supply' =
               IF Ran(48, raise)
               THEN IF ~Has("initial_circulating_supply") THEN None
                    ELSE IF Overflows("initial_circulating_supply") THEN FromHuge
                    ELSE FromInt(initial_circulating_supply)
               ELSE current_circulating_supply
        /\ current_total_supply' =
               IF Ran(49, raise) THEN FromInt(total_supply) ELSE current_total_supply
        /\ current_team_locked' = IF Ran(51, raise) THEN itl ELSE current_team_locked
        /\ current_private_sale_locked' =
               IF Ran(52, raise) THEN ipl ELSE current_private_sale_locked
        /\ team_monthly_unlock_amount' =
               IF Ran(58, raise)
               THEN MonthlyUnlockAmount(itl, team_vesting_linear_months)
               ELSE team_monthly_unlock_amount
        /\ private_sale_monthly_unlock_amount' =
               IF Ran(62, raise)
               THEN MonthlyUnlockAmount(ipl, private_sale_vesting_linear_months)
               ELSE private_sale_monthly_unlock_amount
        /\ range_next' = IF Ran(65, raise) THEN RangeFirst ELSE range_next
        /\ range_stop' =
               IF Ran(65, raise) THEN RangeStop(simulation_duration_months)
               ELSE range_stop
        /\ UNCHANGED << parameters, month, result >>

\* a slip: the cliff month itself unlocks (>= for >)
Unlocked_AtCliff(m, cliff_months, locked, monthly_unlock_amount) ==
    IF m >= cliff_months /\ FGt(locked, Zero)
    THEN FMin(monthly_unlock_amount, locked)
    ELSE Zero

\* a slip: the monthly amount is unlocked without min(..., locked)
Unlocked_Unclamped(m, cliff_months, locked, monthly_unlock_amount) ==
    IF m > cliff_months /\ FGt(locked, Zero)
    THEN monthly_unlock_amount
    ELSE Zero

\* a slip: a bucket past its cliff unlocks the monthly amount whatever is left
Unlocked_PastEnd(m, cliff_months, locked, monthly_unlock_amount) ==
    IF m > cliff_months
    THEN monthly_unlock_amount
    ELSE Zero

\* what a bucket unlocks in month m
Unlocked(m, cliff_months, locked, monthly_unlock_amount) ==
    IF m > cliff_months /\ FGt(locked, Zero)
    THEN FMin(monthly_unlock_amount, locked)
    ELSE Zero

\* a slip: the balance is not reduced by what was unlocked
NextLocked_Kept(locked, unlocked) == locked

\* current_team_locked -= unlocked_team_this_month, and the same for the
\* private sale
NextLocked(locked, unlocked) == FSub(locked, unlocked)

\* the tokens minted in a month
Minted(emission) == FromInt(emission)

\* a slip: burned_tokens_this_month is left at the 0 it is initialised to
Burned_Never(transactions, burn_pct) == Zero

\* the tokens burned in a month
Burned(transactions, burn_pct) == FMul(FromInt(transactions), burn_pct)

\* a slip: the burn is added to the supply
NextTotalSupply_BurnAdded(supply, minted, burned) == FAdd(supply, FAdd(minted, burned))

\* current_total_supply += minted - burned
NextTotalSupply(supply, minted, burned) == FAdd(supply, FSub(minted, burned))

\* a slip: the unlocks do not reach the circulating supply
NextCirculatingSupply_NoUnlocks(supply, team, private_sale, minted, burned) ==
    FAdd(supply, FSub(minted, burned))

\* a slip: the unlock of the private sale does not reach the circulating supply
NextCirculatingSupply_TeamOnly(supply, team, private_sale, minted, burned) ==
    FAdd(supply, FSub(FAdd(team, minted), burned))

\* current_circulating_supply += (unlocked_team_this_month
\*     + unlocked_private_sale_this_month + minted - burned)
NextCirculatingSupply(supply, team, private_sale, minted, burned) ==
    FAdd(supply, FSub(FAdd(FAdd(team, private_sale), minted), burned))

\* the dict appended to data
MonthRecord(m, total, circ, ut, up, minted, burned, tl, pl) ==
    [ month |-> m,
      total_supply |-> total,
      circulating_supply |-> circ,
      unlocked_team |-> ut,
      unlocked_private_sale |-> up,
      minted_tokens |-> minted,
      burned_tokens |-> burned,
      current_team_locked |-> tl,
      current_private_sale_locked |-> pl ]

\* the line of the loop's body that raises, or 0: TypeError on a value that is
\* None, OverflowError on an int that is Huge and meets a float
MonthStepRaises ==
    IF ~Has("team_cliff_months") THEN 72
    ELSE IF ~Has("private_sale_cliff_months") THEN 76
    ELSE IF ~Has("transaction_fee_burn_pct") \/ IsHuge(monthly_simulated_transactions)
    THEN 83
    ELSE IF ~Has("monthly_emission_tokens") \/ Overflows("monthly_emission_tokens")
    THEN 86
    ELSE IF current_circulating_supply = None \/ current_circulating_supply = FromHuge
    THEN 87
    ELSE 0

\* a slip: the range includes its end
HasNextMonth_Inclusive == range_next <= range_stop

\* the range has a next month
HasNextMonth == range_next < range_stop

\* one pass of the loop's body, for the next month of the range
MonthStep ==
    LET raise  == MonthStepRaises
        m      == range_next
        ut     == Unlocked(m, team_cliff_months, current_team_locked,
                           team_monthly_unlock_amount)
        tl     == NextLocked(current_team_locked, ut)
        up     == Unlocked(m, private_sale_cliff_months, current_private_sale_locked,
                           private_sale_monthly_unlock_amount)
        pl     == NextLocked(current_private_sale_locked, up)
        minted == Minted(monthly_emission_tokens)
        burned == Burned(monthly_simulated_transactions, transaction_fee_burn_pct)
        total  == NextTotalSupply(current_total_supply, minted, burned)
        circ   == NextCirculatingSupply(current_circulating_supply, ut, up,
                                        minted, burned)
    IN  /\ pc = "loop"
        /\ HasNextMonth
        /\ pc' = IF raise = 0 THEN "loop" ELSE "raised"
        /\ line' = raise
        /\ month' = m
        /\ range_next' = range_next + 1
        /\ current_team_locked' = IF Ran(74, raise) THEN tl ELSE current_team_locked
        /\ current_private_sale_locked' =
               IF Ran(78, raise) THEN pl ELSE current_private_sale_locked
        /\ current_total_supply' = IF Ran(86, raise) THEN total ELSE current_total_supply
        /\ current_circulating_supply' =
               IF Ran(87, raise) THEN circ ELSE current_circulating_supply
        /\ data' = IF Ran(95, raise)
                   THEN Append(data, MonthRecord(m, total, circ, ut, up, minted, burned,
                                                 tl, pl))
                   ELSE data
        /\ UNCHANGED << parameters, initial_team_locked, initial_private_sale_locked,
                        team_monthly_unlock_amount, private_sale_monthly_unlock_amount,
                        range_stop, result >>

\* the range is exhausted: return pd.DataFrame(data), a row for each dict of
\* data, in the order of data
Return ==
    /\ pc = "loop"
    /\ ~HasNextMonth
    /\ pc' = "returned"
    /\ result' = data
    /\ UNCHANGED << line, parameters, data, initial_team_locked,
                    initial_private_sale_locked, current_circulating_supply,
                    current_total_supply, current_team_locked,
                    current_private_sale_locked, team_monthly_unlock_amount,
                    private_sale_monthly_unlock_amount, range_next, range_stop, month >>

\* one call of run_simulation, alone
Next ==
    \/ \E p \in Configs : Call(p) /\ UNCHANGED others
    \/ Initialize /\ UNCHANGED others
    \/ MonthStep /\ UNCHANGED others
    \/ Return /\ UNCHANGED others

Spec == Init /\ [][Next]_vars

(***************************************************************************)
(* Calls of run_simulation in flight together, their steps interleaved in  *)
(* any order: threads of one process, each call with the frame of its own  *)
(* local variables.  The module has no global the function writes, and     *)
(* every object a call builds (data, the dicts appended to it, the frame   *)
(* returned) is created by that call.                                      *)
(***************************************************************************)
\* the frame of the call that is running
CurrentFrame ==
    [ pc |-> pc, line |-> line, parameters |-> parameters, data |-> data,
      initial_team_locked |-> initial_team_locked,
      initial_private_sale_locked |-> initial_private_sale_locked,
      current_circulating_supply |-> current_circulating_supply,
      current_total_supply |-> current_total_supply,
      current_team_locked |-> current_team_locked,
      current_private_sale_locked |-> current_private_sale_locked,
      team_monthly_unlock_amount |-> team_monthly_unlock_amount,
      private_sale_monthly_unlock_amount |-> private_sale_monthly_unlock_amount,
      range_next |-> range_next, range_stop |-> range_stop, month |-> month,
      result |-> result ]

\* the frame of call r
FrameOf(r) == IF r = cur THEN CurrentFrame ELSE frames[r]

\* a slip: data is one list shared by all calls (a module-level list, a mutable
\* default argument), so a call that resumes finds it as the other call left it
DataOnResume_Shared(own, left) == left

\* data = [] makes the list local to the call: a call that resumes finds its own
DataOnResume(own, left) == own

\* the scheduler lets call r run: the frame of the running call is put aside
Switch(r) ==
    LET f == frames[r]
    IN  /\ r # cur
        /\ cur' = r
        /\ frames' = [frames EXCEPT ![cur] = CurrentFrame, ![r] = NewFrame]
        /\ pc' = f.pc
        /\ line' = f.line
        /\ parameters' = f.parameters
        /\ data' = DataOnResume(f.data, data)
        /\ initial_team_locked' = f.initial_team_locked
        /\ initial_private_sale_locked' = f.initial_private_sale_locked
        /\ current_circulating_supply' = f.current_circulating_supply
        /\ current_total_supply' = f.current_total_supply
        /\ current_team_locked' = f.current_team_locked
        /\ current_private_sale_locked' = f.current_private_sale_locked
        /\ team_monthly_unlock_amount' = f.team_monthly_unlock_amount
        /\ private_sale_monthly_unlock_amount' = f.private_sale_monthly_unlock_amount
        /\ range_next' = f.range_next
        /\ range_stop' = f.range_stop
        /\ month' = f.month
        /\ result' = f.result

\* the configs of the calls in flight together; some calls share a config
InterleavedConfigs ==
    { Config(<<10, 3, 5, Dec(3, 10), 3>>, 3, <<Dec(1, 5), 1, 2>>, <<Dec(3, 20), 0, 1>>),
      Config(<<10, 3, 5, Dec(3, 10), 3>>, 2, <<Dec(1, 1), 0, 3>>, <<Dec(0, 1), 0, 0>>),
      Config(<<1000, 150, 5, Dec(1, 1000), 500>>, 2, <<Dec(1, 5), 1, 2>>,
             <<Dec(3, 20), 0, 1>>) }

NextInterleaved ==
    \/ \E p \in InterleavedConfigs : Call(p) /\ UNCHANGED others
    \/ Initialize /\ UNCHANGED others
    \/ MonthStep /\ UNCHANGED others
    \/ Return /\ UNCHANGED others
    \/ \E r \in Runs : Switch(r) /\ UNCHANGED api

SpecInterleaved == Init /\ [][NextInterleaved]_vars

(***************************************************************************)
(* run_simulation as a function of its argument: the records of a call     *)
(* that runs alone, for a config that holds every key.                     *)
(***************************************************************************)
\* the records of the months m, m + 1, ... before stop, from the state s
RECURSIVE MonthsAlone(_, _, _, _)
MonthsAlone(p, s, m, stop) ==
    IF ~(m < stop) THEN << >>
    ELSE LET ut     == Unlocked(m, p.team_cliff_months, s.team_locked, s.team_monthly)
             tl     == NextLocked(s.team_locked, ut)
             up     == Unlocked(m, p.private_sale_cliff_months, s.private_locked,
                                s.private_monthly)
             pl     == NextLocked(s.private_locked, up)
             minted == Minted(p.monthly_emission_tokens)
             burned == Burned(p.monthly_simulated_transactions,
                              p.transaction_fee_burn_pct)
             total  == NextTotalSupply(s.total, minted, burned)
             circ   == NextCirculatingSupply(s.circ, ut, up, minted, burned)
         IN  << MonthRecord(m, total, circ, ut, up, minted, burned, tl, pl) >>
             \o MonthsAlone(p, [s EXCEPT !.team_locked = tl, !.private_locked = pl,
                                         !.total = total, !.circ = circ],
                            m + 1, stop)

RunAlone(p) ==
    LET itl == InitialLocked(p.total_supply, p.team_allocation_pct)
        ipl == InitialLocked(p.total_supply, p.private_sale_pct)
    IN  MonthsAlone(p,
            [ circ |-> FromInt(p.initial_circulating_supply),
              total |-> FromInt(p.total_supply),
              team_locked |-> itl,
              private_locked |-> ipl,
              team_monthly |-> MonthlyUnlockAmount(itl, p.team_vesting_linear_months),
              private_monthly |->
                  MonthlyUnlockAmount(ipl, p.private_sale_vesting_linear_months) ],
            RangeFirst, RangeStop(p.simulation_duration_months))

\* call r has started (its frame holds a config)
Started(r) == FrameOf(r).pc # "idle"

(***************************************************************************)
(* The handlers of src/main.py.  A request to /simulate arrives as a       *)
(* SimulationParameters object, which holds every one of the sixteen       *)
(* fields, an int or a float as declared; an int has no bound.             *)
(***************************************************************************)
\* params.dict()
ParamsDict(params) == [k \in Keys |-> params[k]]

\* results_df.to_dict(orient='records'): the rows of the frame, in its order,
\* each a dict of the columns
to_dict_records(rows) == [i \in 1..Len(rows) |-> [k \in DOMAIN rows[i] |-> rows[i][k]]]

\* the response of a handler that returns content
Success(endpoint, content) ==
    [endpoint |-> endpoint, status_code |-> 200, content |-> content]

\* the response to raise HTTPException(status_code=500, detail=detail)
Failure(endpoint, detail) ==
    [endpoint |-> endpoint, status_code |-> 500, detail |-> detail]

\* a slip: the handler of /simulate swallows the exception and answers with an
\* empty list of records
SimulateFailed_Swallowed(e) == Success("/simulate", << >>)

\* except Exception as e of simulate_tokenomics, e the exception's str()
SimulateFailed(e) == Failure("/simulate", "Simulation failed: " \o e)

\* the config the requests to /simulate vary
ApiConfig(d) ==
    Config(<<10, 3, 5, Dec(3, 10), 3>>, d, <<Dec(1, 5), 1, 2>>, <<Dec(3, 20), 0, 1>>)

\* the fields of a request that are not those of ApiConfig: none, a value outside
\* the documented domains, an int too large for a float
ApiFields ==
    << << >>,
       [team_allocation_pct |-> Dec(0 - 1, 5)],
       [total_supply |-> Huge],
       [initial_circulating_supply |-> Huge],
       [team_vesting_linear_months |-> Huge],
       [private_sale_vesting_linear_months |-> Huge],
       [monthly_emission_tokens |-> Huge],
       [monthly_simulated_transactions |-> Huge] >>

\* the durations of the requests
ApiDurations == {0, 2, 3}

\* the environments the process starts in: the key unset, empty, set
Environments ==
    { << >>, [OPENAI_API_KEY |-> ""], [OPENAI_API_KEY |-> "sk-test"] }

\* how the SDK of the LLM service behaves: the client cannot be built, the call
\* of the service raises, the service answers
Services ==
    { [client |-> "raises", message |-> "Client.__init__() got an unexpected keyword argument 'proxies'"],
      [client |-> "ok", create |-> "raises", message |-> "Connection error."],
      ServiceUp }

\* the requests to the LLM service the model follows
MaxSent == 2

\* uvicorn starts the app, in an environment and with a service
Startup(e, s) ==
    /\ api_pc = "off"
    /\ api_pc' = "idle"
    /\ environ' = e
    /\ service' = s
    /\ UNCHANGED << locals, sched, http_response, sent >>

\* POST /simulate: simulate_tokenomics calls run_simulation(params.dict())
SimulateRequest(params) ==
    /\ api_pc = "idle"
    /\ api_pc' = "simulate"
    /\ Call(ParamsDict(params))
    /\ UNCHANGED << sched, http_response, environ, service, sent >>

\* run_simulation has returned or raised: simulate_tokenomics answers
SimulateRespond ==
    /\ api_pc = "simulate"
    /\ pc \in {"returned", "raised"}
    /\ api_pc' = "idle"
    /\ http_response' =
           IF pc = "returned" THEN Success("/simulate", to_dict_records(result))
           ELSE SimulateFailed(ErrorMessage)
    /\ UNCHANGED << locals, sched, environ, service, sent >>

\* os.getenv("OPENAI_API_KEY") is None or empty: not api_key
NoApiKey == "OPENAI_API_KEY" \notin DOMAIN environ \/ environ["OPENAI_API_KEY"] = ""

\* the string get_llm_analysis returns without an API key
ApiKeyError ==
    "Error: OPENAI_API_KEY environment variable not set. Cannot perform LLM analysis."

\* what a function does: it returns a value or raises an exception of str() e
Returns(value) == [raised |-> FALSE, value |-> value]

Raises(e) == [raised |-> TRUE, value |-> e]

\* a slip: get_llm_analysis lets the exception of the call through
CreateFailed_Reraised(e) == Raises(e)

\* except Exception as e of get_llm_analysis, around the call of the service
CreateFailed(e) == Returns("Error during LLM analysis: " \o e)

\* get_llm_analysis reaches client.chat.completions.create
CallsService == ~NoApiKey /\ service.client = "ok"

\* get_llm_analysis(simulation_data_json)
get_llm_analysis ==
    IF NoApiKey THEN Returns(ApiKeyError)
    ELSE IF service.client = "raises" THEN Raises(service.message)
    ELSE IF service.create = "raises" THEN CreateFailed(service.message)
    ELSE Returns(service.content)

\* POST /analyze_tokenomics: the handler, get_llm_analysis included
AnalyzeTokenomics(simulation_data) ==
    LET r == get_llm_analysis
    IN  /\ api_pc = "idle"
        /\ Len(sent) < MaxSent
        /\ sent' = IF CallsService
                   THEN Append(sent, [model |-> "gpt-4o", data |-> simulation_data])
                   ELSE sent
        /\ http_response' =
               IF r.raised
               THEN Failure("/analyze_tokenomics", "LLM analysis failed: " \o r.value)
               ELSE Success("/analyze_tokenomics", [analysis |-> r.value])
        /\ UNCHANGED << locals, sched, api_pc, environ, service >>

NextApi ==
    \/ \E e \in Environments, s \in Services : Startup(e, s)
    \/ \E d \in ApiDurations, i \in 1..Len(ApiFields) :
           SimulateRequest(Update(ApiConfig(d), ApiFields[i]))
    \/ Initialize /\ UNCHANGED others
    \/ MonthStep /\ UNCHANGED others
    \/ Return /\ UNCHANGED others
    \/ SimulateRespond
    \/ \E d \in {<< >>, result} : AnalyzeTokenomics(d)

SpecApi == Init /\ [][NextApi]_vars

(***************************************************************************)
(* run_simulation called with any dict of numbers, and run to its end.     *)
(***************************************************************************)

\* the calls of Spec, and those with an int too large for a float
NextAnyConfig ==
    \/ \E p \in Configs : Call(p) /\ UNCHANGED others
    \/ \E d \in ApiDurations, i \in 1..Len(ApiFields) :
           Call(Update(ApiConfig(d), ApiFields[i])) /\ UNCHANGED others
    \/ Initialize /\ UNCHANGED others
    \/ MonthStep /\ UNCHANGED others
    \/ Return /\ UNCHANGED others

\* Initialize as the control state shows it: the call leaves its first statements
InitializeEnds == pc = "init" /\ pc' \in {"loop", "raised"}

\* MonthStep as the iterator of the range shows it: the loop takes the next month
NextMonthTaken == pc = "loop" /\ HasNextMonth /\ range_next' = range_next + 1

\* the interpreter runs the statements of a call one after the other: a call
\* that has a next statement executes it.  Initialize is enabled whenever
\* pc = "init" and MonthStep whenever the range has a next month, so fairness
\* to the two steps above is fairness to Initialize and to MonthStep
SpecAnyConfig ==
    /\ Init
    /\ [][NextAnyConfig]_vars
    /\ WF_pc(InitializeEnds)
    /\ WF_range_next(NextMonthTaken)
    /\ WF_vars(Return /\ UNCHANGED others)

(***************************************************************************)
(* The documented domains of the parameters.                               *)
(***************************************************************************)
One == FromInt(1)

IsFraction(x) == FLe(Zero, x) /\ FLe(x, One)

\* every field but the duration is present and within its documented domain
ValidOtherFields ==
    /\ DOMAIN parameters = Keys
    /\ total_supply >= 0
    /\ initial_circulating_supply >= 0
    /\ \A k \in { "team_allocation_pct", "private_sale_pct", "public_sale_pct",
                  "treasury_pct", "community_rewards_pct", "liquidity_mining_pct",
                  "transaction_fee_burn_pct" } : IsFraction(parameters[k])
    /\ team_cliff_months >= 0
    /\ team_vesting_linear_months >= 0
    /\ private_sale_cliff_months >= 0
    /\ private_sale_vesting_linear_months >= 0
    /\ monthly_emission_tokens >= 0
    /\ monthly_simulated_transactions >= 0

ValidConfig == ValidOtherFields /\ simulation_duration_months >= 1

\* the two vesting buckets: the keys of a bucket's parameters and record fields
Buckets ==
    { [ pct |-> "team_allocation_pct", cliff |-> "team_cliff_months",
        linear |-> "team_vesting_linear_months",
        unlocked |-> "unlocked_team", locked |-> "current_team_locked" ],
      [ pct |-> "private_sale_pct", cliff |-> "private_sale_cliff_months",
        linear |-> "private_sale_vesting_linear_months",
        unlocked |-> "unlocked_private_sale",
        locked |-> "current_private_sale_locked" ] }

\* the allocation bucket b starts with
Allocation(b) == InitialLocked(total_supply, parameters[b.pct])

\* the locked balance of bucket b before month i's step
LockedBefore(b, i) == IF i = 1 THEN Allocation(b) ELSE data[i - 1][b.locked]

(***************************************************************************)
(* C1: for a valid config of duration N >= 1 the run returns exactly N     *)
(* records, and the i-th record is the one of month i: the months are      *)
(* 1, 2, ..., N, in order, without gap or repeat.                          *)
(***************************************************************************)
C1_LengthAndMonths ==
    (pc = "returned" /\ ValidConfig) =>
        /\ Len(result) = simulation_duration_months
        /\ \A i \in 1..Len(result) : result[i].month = i

C1_Witness ==
    /\ pc = "returned"
    /\ ValidConfig
    /\ simulation_duration_months >= 3
    /\ Len(result) = simulation_duration_months

(***************************************************************************)
(* C2, as claimed: the total supply of month 1 is the config's total       *)
(* supply + minted - burned, and the total supply of a later month is that *)
(* of the month before + minted - burned, the sum taken as written, left   *)
(* to right, in the arithmetic of the program; stated for valid configs.   *)
(***************************************************************************)
C2_Original ==
    ValidConfig =>
        \A i \in 1..Len(data) :
            data[i].total_supply =
                FSub(FAdd(IF i = 1 THEN FromInt(total_supply)
                          ELSE data[i - 1].total_supply,
                          data[i].minted_tokens),
                     data[i].burned_tokens)

(***************************************************************************)
(* C2, amended: the total supply of month 1 is the config's total supply   *)
(* plus the month's net emission, and the total supply of a later month is *)
(* that of the month before plus the month's net emission, where the net   *)
(* emission minted - burned is formed, and rounded, first; no unlock       *)
(* enters it.                                                              *)
(***************************************************************************)
C2_SupplyAccumulation ==
    \A i \in 1..Len(data) :
        data[i].total_supply =
            FAdd(IF i = 1 THEN FromInt(total_supply) ELSE data[i - 1].total_supply,
                 FSub(data[i].minted_tokens, data[i].burned_tokens))

C2_Witness ==
    /\ Len(data) >= 3
    /\ data[3].unlocked_team # Zero
    /\ data[3].unlocked_private_sale # Zero
    /\ data[3].burned_tokens # Zero
    /\ data[3].minted_tokens # Zero

(***************************************************************************)
(* C3: for a valid config and either bucket, the locked balance recorded   *)
(* for a month is at most the one recorded for the month before (for the   *)
(* first month, at most the bucket's allocation total_supply * pct), and   *)
(* no recorded locked balance is negative.                                 *)
(***************************************************************************)
C3_LockedMonotone ==
    ValidConfig =>
        \A b \in Buckets : \A i \in 1..Len(data) :
            /\ FLe(data[i][b.locked], LockedBefore(b, i))
            /\ FLe(Zero, data[i][b.locked])

C3_Witness ==
    /\ ValidConfig
    /\ \A b \in Buckets : \E i \in 2..Len(data) :
           /\ FLt(data[i][b.locked], data[i - 1][b.locked])
           /\ data[Len(data)][b.locked] = Zero

(***************************************************************************)
(* C4: in every record of a month at or before a bucket's cliff, the       *)
(* bucket unlocked nothing and its locked balance is its allocation; for   *)
(* the team bucket and for the private-sale bucket alike.                  *)
(***************************************************************************)
C4_CliffGating ==
    \A b \in Buckets : \A i \in 1..Len(data) :
        data[i].month <= parameters[b.cliff] =>
            /\ data[i][b.unlocked] = Zero
            /\ data[i][b.locked] = Allocation(b)

C4_Witness ==
    /\ pc = "returned"
    /\ DOMAIN parameters = Keys
    /\ \A b \in Buckets :
        /\ Len(data) > parameters[b.cliff]
        /\ parameters[b.cliff] >= 1
        /\ data[parameters[b.cliff]][b.unlocked] = Zero
        /\ data[parameters[b.cliff] + 1][b.unlocked] # Zero

(***************************************************************************)
(* C6: in every record the minted tokens are monthly_emission_tokens and   *)
(* the burned tokens are monthly_simulated_transactions *                  *)
(* transaction_fee_burn_pct: the same two values in every month, whatever  *)
(* the month, the cliffs and the locked balances.                          *)
(***************************************************************************)
C6_ConstantMintBurn ==
    \A i \in 1..Len(data) :
        /\ data[i].minted_tokens = FromInt(monthly_emission_tokens)
        /\ data[i].burned_tokens =
               FMul(FromInt(monthly_simulated_transactions), transaction_fee_burn_pct)
        /\ data[i].minted_tokens = data[1].minted_tokens
        /\ data[i].burned_tokens = data[1].burned_tokens

C6_Witness ==
    /\ Len(data) >= 3
    /\ data[3].burned_tokens # Zero
    /\ data[3].minted_tokens # Zero
    /\ data[3].unlocked_team # Zero
    /\ data[1].unlocked_team = Zero

(***************************************************************************)
(* C5, as claimed: for a valid config and a bucket of L > 0 linear vesting *)
(* months and cliff c, the locked balance is 0 in the record of month      *)
(* c + L and in every later record.                                        *)
(***************************************************************************)
C5_Original ==
    ValidConfig =>
        \A b \in Buckets : \A i \in 1..Len(data) :
            (parameters[b.linear] > 0
             /\ data[i].month >= parameters[b.cliff] + parameters[b.linear])
            => data[i][b.locked] = Zero

\* L * 2^-(Prec - 1) times the allocation of bucket b >= 0: the rounding the L
\* monthly subtractions and the division by L can leave behind
Tolerance(b) ==
    LET x == Allocation(b)
    IN  Exact(x.sg, BMulSmall(x.m, parameters[b.linear]), x.e - (Prec - 1))

(***************************************************************************)
(* C5, amended: for a valid config and a bucket of L > 0 linear vesting    *)
(* months and cliff c, the locked balance in the record of month c + L and *)
(* in every later record is 0 within floating tolerance: it is not         *)
(* negative and at most L * 2^-52 times the bucket's allocation.           *)
(***************************************************************************)
C5_VestedWithinTolerance ==
    ValidConfig =>
        \A b \in Buckets : \A i \in 1..Len(data) :
            (parameters[b.linear] > 0
             /\ data[i].month >= parameters[b.cliff] + parameters[b.linear])
            => /\ FLe(Zero, data[i][b.locked])
               /\ FLe(data[i][b.locked], Tolerance(b))

\* a residue of rounding is left in the record of month c + L, after L unlocks
C5_Witness ==
    /\ ValidConfig
    /\ \E b \in Buckets : \E i \in 1..Len(data) :
           /\ parameters[b.linear] > 0
           /\ data[i].month = parameters[b.cliff] + parameters[b.linear]
           /\ FGt(data[i][b.locked], Zero)
           /\ FGt(data[i][b.unlocked], Zero)

(***************************************************************************)
(* C7: the scenario of the specification.  With a total supply of          *)
(* 1,000,000,000, 150,000,000 in circulation, 2 months, a team allocation  *)
(* of 0.20 with a cliff of 1 month and 1 month of linear vesting, no       *)
(* private-sale allocation, 5,000,000 tokens emitted a month and 0.001 of  *)
(* 500,000,000 transacted tokens burned a month, month 1 unlocks nothing   *)
(* for the team and ends with a total supply of 1,004,500,000 and          *)
(* 154,500,000 in circulation; month 2 unlocks 200,000,000 for the team,   *)
(* leaves the team 0 locked and ends with a total supply of 1,009,000,000  *)
(* and 359,000,000 in circulation.                                         *)
(***************************************************************************)
Scenario ==
    /\ DOMAIN parameters = Keys
    /\ total_supply = 1000000000
    /\ initial_circulating_supply = 150000000
    /\ simulation_duration_months = 2
    /\ team_allocation_pct = Dec(20, 100)
    /\ team_cliff_months = 1
    /\ team_vesting_linear_months = 1
    /\ private_sale_pct = Zero
    /\ monthly_emission_tokens = 5000000
    /\ transaction_fee_burn_pct = Dec(1, 1000)
    /\ monthly_simulated_transactions = 500000000

C7_Scenario ==
    (Scenario /\ pc = "returned") =>
        /\ Len(result) = 2
        /\ result[1].month = 1
        /\ result[1].unlocked_team = Zero
        /\ result[1].total_supply = FromInt(1004500000)
        /\ result[1].circulating_supply = FromInt(154500000)
        /\ result[2].month = 2
        /\ result[2].unlocked_team = FromInt(200000000)
        /\ result[2].current_team_locked = Zero
        /\ result[2].total_supply = FromInt(1009000000)
        /\ result[2].circulating_supply = FromInt(359000000)

C7_Witness ==
    /\ Scenario
    /\ pc = "returned"
    /\ Len(result) = 2
    /\ result[2].circulating_supply = FromInt(359000000)

\* the keys run_simulation reads without a default and computes with
RequiredKeys ==
    { "total_supply", "initial_circulating_supply", "simulation_duration_months",
      "team_allocation_pct", "private_sale_pct",
      "team_cliff_months", "team_vesting_linear_months",
      "private_sale_cliff_months", "private_sale_vesting_linear_months",
      "monthly_emission_tokens", "transaction_fee_burn_pct" }

(***************************************************************************)
(* C8, as claimed: when a required field is missing the run raises before  *)
(* the monthly loop starts, whatever the other fields are, a duration of 0 *)
(* included: once the initialisation is over the run has raised, at a      *)
(* statement before the loop's body, and it never returns.                 *)
(***************************************************************************)
C8_RaisesBeforeLoop ==
    (pc \in {"loop", "returned", "raised"} /\ ~(RequiredKeys \subseteq DOMAIN parameters))
    => /\ pc = "raised"
       /\ line <= 65

(***************************************************************************)
(* C9, as claimed: the locked balances of every record are clamped at 0,   *)
(* also for a config whose values are outside the documented domains.      *)
(***************************************************************************)
C9_LockedClamped ==
    \A b \in Buckets : \A i \in 1..Len(data) : FLe(Zero, data[i][b.locked])

(***************************************************************************)
(* C10: with a duration of 0 and every other field valid, the run emits no *)
(* record and makes no monthly transition: it returns an empty frame.      *)
(***************************************************************************)
C10_ZeroDuration ==
    (ValidOtherFields /\ simulation_duration_months = 0) =>
        /\ data = << >>
        /\ month = 0
        /\ result = << >>
        /\ pc \in {"init", "loop", "returned"}

C10_Witness ==
    /\ ValidOtherFields
    /\ simulation_duration_months = 0
    /\ pc = "returned"
    /\ result = << >>
(***************************************************************************)
(* C11: the output of a call is a function of its config alone.  Whatever  *)
(* the order in which the steps of the calls in flight are interleaved,    *)
(* the records a call has built so far are the first records it builds     *)
(* when it runs alone, and the frame it returns holds exactly the records  *)
(* of the call run alone; so two calls started with the same config return *)
(* identical sequences of records.                                         *)
(***************************************************************************)
C11_RunsIndependent ==
    /\ \A r \in Runs :
           Started(r) =>
               LET f     == FrameOf(r)
                   alone == RunAlone(f.parameters)
               IN  /\ f.pc # "raised"
                   /\ Len(f.data) <= Len(alone)
                   /\ f.data = SubSeq(alone, 1, Len(f.data))
                   /\ f.pc = "returned" => f.result = alone
    /\ \A r, q \in Runs :
           (/\ FrameOf(r).pc = "returned"
            /\ FrameOf(q).pc = "returned"
            /\ FrameOf(r).parameters = FrameOf(q).parameters)
           => FrameOf(r).result = FrameOf(q).result

\* two calls with the same config are in the middle of their loops together,
\* one with one record built, the other with two and a month still to run
C11_Witness ==
    \E r, q \in Runs :
        /\ r # q
        /\ FrameOf(r).pc = "loop"
        /\ FrameOf(q).pc = "loop"
        /\ FrameOf(r).parameters = FrameOf(q).parameters
        /\ Len(FrameOf(r).data) = 1
        /\ Len(FrameOf(q).data) = 2
        /\ FrameOf(q).range_next < FrameOf(q).range_stop

(***************************************************************************)
(* C12: once /simulate has answered, the response is the failure of status *)
(* 500 exactly when run_simulation raised, and its detail is then          *)
(* "Simulation failed: " followed by the message of the exception; the     *)
(* response is a success only when the run returned, and its content is    *)
(* then every record of the run, the record of month i in place i.  No     *)
(* exception of the engine ends in a success response.                     *)
(***************************************************************************)
C12_SimulateResponse ==
    http_response.endpoint = "/simulate" =>
        /\ pc \in {"returned", "raised"}
        /\ pc = "raised" =>
               /\ http_response.status_code = 500
               /\ http_response.detail = "Simulation failed: " \o ErrorMessage
        /\ pc = "returned" => http_response.status_code = 200
        /\ http_response.status_code = 200 =>
               /\ pc = "returned"
               /\ http_response.content = result
               /\ http_response.content = data
               /\ Len(http_response.content) =
                      IF simulation_duration_months > 0
                      THEN simulation_duration_months ELSE 0
               /\ \A i \in 1..Len(data) : http_response.content[i].month = i

\* the engine raised inside the loop, and /simulate answered 500 with the message
C12_Witness ==
    /\ http_response.endpoint = "/simulate"
    /\ pc = "raised"
    /\ line = 87
    /\ http_response.status_code = 500
    /\ http_response.detail = "Simulation failed: int too large to convert to float"

CirculatingBefore(i) ==
    IF i = 1 THEN FromInt(initial_circulating_supply) ELSE data[i - 1].circulating_supply

(***************************************************************************)
(* C14, as claimed: the circulating supply of a month is the one before    *)
(* (initial_circulating_supply for month 1) + unlocked_team +              *)
(* unlocked_private_sale + minted - burned of the month, the sum taken as  *)
(* written, left to right, in the arithmetic of the program; stated for    *)
(* valid configs.                                                          *)
(***************************************************************************)
C14_Original ==
    ValidConfig =>
        \A i \in 1..Len(data) :
            data[i].circulating_supply =
                FSub(FAdd(FAdd(FAdd(CirculatingBefore(i), data[i].unlocked_team),
                               data[i].unlocked_private_sale),
                          data[i].minted_tokens),
                     data[i].burned_tokens)

(***************************************************************************)
(* C14, amended: the circulating supply of a month is the one before       *)
(* (initial_circulating_supply for month 1) plus the month's change, where *)
(* the change unlocked_team + unlocked_private_sale + minted - burned is   *)
(* formed, and rounded, first.  The unlocks in it are those of the same    *)
(* record: the unlock of a month is applied before that month's update of  *)
(* the supply.                                                             *)
(***************************************************************************)
C14_CirculatingAccumulation ==
    DOMAIN parameters = Keys =>
        \A i \in 1..Len(data) :
            data[i].circulating_supply =
                FAdd(CirculatingBefore(i),
                     FSub(FAdd(FAdd(data[i].unlocked_team, data[i].unlocked_private_sale),
                               data[i].minted_tokens),
                          data[i].burned_tokens))

\* the record of the first month after the team's cliff holds an unlock, and the
\* circulating supply of that record has grown by more than the net emission
C14_Witness ==
    /\ ValidConfig
    /\ team_cliff_months >= 1
    /\ Len(data) > team_cliff_months
    /\ LET i == team_cliff_months + 1
       IN  /\ FGt(data[i].unlocked_team, Zero)
           /\ data[i - 1].unlocked_team = Zero
           /\ FGt(data[i].circulating_supply,
                  FAdd(data[i - 1].circulating_supply,
                       FSub(data[i].minted_tokens, data[i].burned_tokens)))

AllNumeric == DOMAIN parameters = Keys

\* no field is an int too large for a float
InFloatRange == \A k \in Keys : ~IsHuge(parameters[k])

\* the passes of the loop's body made so far
Transitions == range_next - RangeFirst

\* the call returned after max(simulation_duration_months, 0) passes
ReturnedAfterDuration ==
    /\ pc = "returned"
    /\ Transitions = IF simulation_duration_months > 0
                     THEN simulation_duration_months ELSE 0

XAdd(x, y) == LET s == ExactSum(x, y) IN Exact(s[1], s[2], s[3])

XSub(x, y) == XAdd(x, FNeg(y))

XAbs(x) == [x EXCEPT !.sg = Abs(x.sg)]

\* k * 2^-Prec * |x|: k times the most that one rounding to a result of
\* magnitude |x| or less can move it
Roundings(k, x) == Exact(Abs(x.sg), BMulSmall(x.m, k), x.e - Prec)

\* what bucket b unlocked in the records 1..i, summed without rounding
RECURSIVE CumulativeUnlocked(_, _)
CumulativeUnlocked(b, i) ==
    IF i = 0 THEN Zero ELSE XAdd(CumulativeUnlocked(b, i - 1), data[i][b.unlocked])

\* what the two buckets unlocked in the records 1..i, summed without rounding
RECURSIVE CumulativeUnlocks(_)
CumulativeUnlocks(i) ==
    IF i = 0 THEN Zero
    ELSE XAdd(CumulativeUnlocks(i - 1),
              XAdd(data[i].unlocked_team, data[i].unlocked_private_sale))

\* how far record i is from conserving the allocation of bucket b
ConservationGap(b, i) ==
    XAbs(XSub(XAdd(data[i][b.locked], CumulativeUnlocked(b, i)), Allocation(b)))

\* how far circulating_supply - total_supply of record i is from its initial
\* value plus the unlocks of both buckets so far
SupplyGap(i) ==
    XAbs(XSub(XSub(data[i].circulating_supply, data[i].total_supply),
              XAdd(FromInt(initial_circulating_supply - total_supply),
                   CumulativeUnlocks(i))))

\* a magnitude no supply, balance or monthly change of the months 1..i exceeds
Scale(i) ==
    LET monthly == XAdd(XAbs(Minted(monthly_emission_tokens)),
                        XAbs(Burned(monthly_simulated_transactions,
                                    transaction_fee_burn_pct)))
        start   == XAdd(XAdd(FromInt(Abs(initial_circulating_supply)),
                             FromInt(Abs(total_supply))),
                        XAdd(XAbs(InitialLocked(total_supply, team_allocation_pct)),
                             XAbs(InitialLocked(total_supply, private_sale_pct))))
    IN  XAdd(start, Exact(monthly.sg, BMulSmall(monthly.m, i), monthly.e))

(***************************************************************************)
(* C17, as claimed: for each bucket and every record m, the locked balance *)
(* of the record plus the bucket's unlocked amounts of the records 1..m    *)
(* equals the bucket's allocation total_supply * pct, and                  *)
(* circulating_supply - total_supply of the record equals                  *)
(* initial_circulating_supply - total_supply (of the config) plus the      *)
(* unlocked amounts of both buckets in the records 1..m.                   *)
(***************************************************************************)
C17_Original ==
    AllNumeric =>
        \A i \in 1..Len(data) :
            /\ \A b \in Buckets : ConservationGap(b, i) = Zero
            /\ SupplyGap(i) = Zero

(***************************************************************************)
(* C17, amended: the two sides of each equation differ by the rounding of  *)
(* the monthly updates at most: for each bucket and every record m, the    *)
(* locked balance plus the unlocked amounts of the records 1..m is within  *)
(* m * 2^-53 times the allocation of the allocation, and                   *)
(* circulating_supply - total_supply is within 8 * m * 2^-53 times the     *)
(* magnitude of the run (initial supplies, allocations, m months of        *)
(* minting and burning) of its initial value plus the unlocked amounts.    *)
(***************************************************************************)
C17_ConservedWithinRounding ==
    AllNumeric =>
        \A i \in 1..Len(data) :
            /\ \A b \in Buckets :
                   FLe(ConservationGap(b, i), Roundings(i, Allocation(b)))
            /\ FLe(SupplyGap(i), Roundings(8 * i, Scale(i)))

\* a bucket that has unlocked in three records and still holds tokens, and whose
\* record does not conserve the allocation to the last bit
C17_Witness ==
    /\ ValidConfig
    /\ \E b \in Buckets : \E i \in 3..Len(data) :
           /\ FGt(data[i - 2][b.unlocked], Zero)
           /\ FGt(data[i][b.unlocked], Zero)
           /\ FGt(ConservationGap(b, i), Zero)
           /\ FGt(SupplyGap(i), Zero)

(***************************************************************************)
(* C18: get_llm_analysis answers a failure with an error string, not with  *)
(* an exception.  Without OPENAI_API_KEY in the environment it returns the *)
(* string that says so, and no request is ever made to the LLM service.    *)
(* When the call of the service raises, it returns "Error during LLM       *)
(* analysis: " followed by the message of the exception.  In both cases    *)
(* /analyze_tokenomics answers with a success of status 200 whose analysis *)
(* field is that error string.                                             *)
(***************************************************************************)
C18_AnalysisDegrades ==
    /\ NoApiKey =>
           /\ get_llm_analysis = Returns(ApiKeyError)
           /\ sent = << >>
           /\ http_response.endpoint = "/analyze_tokenomics" =>
                  /\ http_response.status_code = 200
                  /\ http_response.content.analysis = ApiKeyError
    /\ (CallsService /\ service.create = "raises") =>
           /\ get_llm_analysis = Returns("Error during LLM analysis: " \o service.message)
           /\ http_response.endpoint = "/analyze_tokenomics" =>
                  /\ http_response.status_code = 200
                  /\ http_response.content.analysis =
                         "Error during LLM analysis: " \o service.message

\* the records of a simulation were sent to the LLM service, its call raised,
\* and /analyze_tokenomics answered 200 with the error string
C18_Witness ==
    /\ CallsService
    /\ service.create = "raises"
    /\ http_response.endpoint = "/analyze_tokenomics"
    /\ http_response.status_code = 200
    /\ http_response.content.analysis = "Error during LLM analysis: Connection error."
    /\ Len(sent) = 1
    /\ Len(sent[1].data) = 3
====
